---- MODULE Spec2Model ----
(***************************************************************************)
(* Model of jargen: the route/policy compilers of generate_config.py       *)
(* (config_ios, config_junos, writeConfig) and the schema-driven validator *)
(* of config_validation.py (basic_validation_caller, validate_base,        *)
(* validateConfig).                                                        *)
(*                                                                         *)
(* Python str values are TLA+ strings in the compilers (f-strings become   *)
(* \o concatenations, str(int) becomes ToString).  In the validator, where *)
(* re.fullmatch has to look inside a string, a str is a sequence of        *)
(* one-character strings.  A Python dict is a sequence of key/value pairs  *)
(* with distinct keys, in insertion order; a Python list is a sequence.    *)
(***************************************************************************)
EXTENDS Integers, Sequences, FiniteSets, TLC

VARIABLES
    pc,         \* "idle", or the name of the function that has just run
    routes,     \* argument `routes` of the last compiler call
    localAS,    \* argument `localAS` of the last config_ios call
    vrf,        \* argument `vrf` of the last compiler call
    bgpGroup,   \* argument `bgpGroup` of the last config_junos call
    lines,      \* the list writeConfig's text was joined from
    written,    \* the text writeConfig wrote to <path>/config.txt
    command,    \* config_junos's local variable `command` when it returns
    config,     \* argument `config` of the last validator call
    schema,     \* argument `schema` of the last validator call
    types,      \* argument `types` of the last validator call
    result,     \* what the last validator call returned, or the fault it died of
    ran,        \* the tests validateConfig ran, in order
    raised      \* the `test` of the ConfigValidationTestFailedError raised, or "none"

vars == <<pc, routes, localAS, vrf, bgpGroup, lines, written, command,
          config, schema, types, result, ran, raised>>

----------------------------------------------------------------------------
(* Bounds of the model                                                     *)

\* longest route list handed to a compiler
MaxRoutes == 3

\* longest list inside a configuration tree handed to the validator
MaxListLen == 2

----------------------------------------------------------------------------
(* Route (jargen.objects, not part of the sources at hand)                 *)

Networks ==
    { [addr |-> "10.0.0.0", prefixlen |-> 24],
      [addr |-> "10.1.0.0", prefixlen |-> 16] }

\* (aspath, communities, origin): the default policy, each attribute set
\* alone, and all three set
Policies ==
    { [aspath |-> << >>, communities |-> << >>, origin |-> "igp"],
      [aspath |-> << 65001, 65002 >>, communities |-> << >>, origin |-> "igp"],
      [aspath |-> << >>, communities |-> << "65000:100", "65000:200" >>, origin |-> "igp"],
      [aspath |-> << >>, communities |-> << >>, origin |-> "incomplete"],
      [aspath |-> << 65001, 65002 >>, communities |-> << "65000:100", "65000:200" >>,
       origin |-> "egp"] }

Route ==
    { [network |-> n, aspath |-> p.aspath,
       communities |-> p.communities, origin |-> p.origin] :
        n \in Networks, p \in Policies }

\* the route lists of length at most n
RouteLists(n) == UNION { [1..k -> Route] : k \in 0..n }

\* Route.aspath_as_str: the AS numbers of the path, each as a string
aspath_as_str(route) ==
    [i \in 1..Len(route.aspath) |-> ToString(route.aspath[i])]

\* ipaddress: netmask of a prefix length
netmask(prefixlen) ==
    CASE prefixlen = 24 -> "255.255.255.0"
      [] prefixlen = 16 -> "255.255.0.0"
      [] prefixlen = 8  -> "255.0.0.0"
      [] OTHER          -> "0.0.0.0"

\* str(network): address/prefixlen
NetworkStr(network) == network.addr \o "/" \o ToString(network.prefixlen)

\* ' '.join(str(network.with_netmask).split('/')): address, a space, netmask
NetworkWithNetmask(network) == network.addr \o " " \o netmask(network.prefixlen)

----------------------------------------------------------------------------
(* str.join and list helpers                                               *)

RECURSIVE Join(_, _)
\* sep.join(strs)
Join(sep, strs) ==
    IF Len(strs) = 0 THEN ""
    ELSE IF Len(strs) = 1 THEN strs[1]
    ELSE strs[1] \o sep \o Join(sep, Tail(strs))

\* [x for x in config if x]
NonEmptyLines(config_) == SelectSeq(config_, LAMBDA x : x # "")

RECURSIVE Flatten(_)
\* concatenation of a sequence of sequences
Flatten(ss) == IF Len(ss) = 0 THEN <<>> ELSE Head(ss) \o Flatten(Tail(ss))

----------------------------------------------------------------------------
(* generate_config.py: config_ios                                          *)

\* RouteKey with the communities left out of the key
RouteKey_NoCommunities(route) ==
    << Join(" ", aspath_as_str(route)), "", route.origin >>

\* the grouping key of a route: (" ".join(aspath_as_str), " ".join(communities), origin)
RouteKey(route) ==
    << Join(" ", aspath_as_str(route)), Join(" ", route.communities), route.origin >>

\* RouteDictAppend with a new key put in front of the entries
RouteDictAppend_Front(d, route) ==
    IF \E i \in 1..Len(d) : d[i].key = RouteKey(route)
    THEN [i \in 1..Len(d) |->
            IF d[i].key = RouteKey(route)
            THEN [d[i] EXCEPT !.value = Append(@, route.network)]
            ELSE d[i]]
    ELSE << [key |-> RouteKey(route), value |-> <<route.network>>] >> \o d

\* routeDict[key].append(network) on a defaultdict(list): the dict is the
\* sequence of its entries in insertion order
RouteDictAppend(d, route) ==
    IF \E i \in 1..Len(d) : d[i].key = RouteKey(route)
    THEN [i \in 1..Len(d) |->
            IF d[i].key = RouteKey(route)
            THEN [d[i] EXCEPT !.value = Append(@, route.network)]
            ELSE d[i]]
    ELSE Append(d, [key |-> RouteKey(route), value |-> <<route.network>>])

RECURSIVE RouteDictOf(_, _)
\* routeDict after the first n routes of the list have been processed
RouteDictOf(routes_, n) ==
    IF n = 0 THEN <<>>
    ELSE RouteDictAppend(RouteDictOf(routes_, n - 1), routes_[n])

\* routeDict after the loop over all routes
RouteDict(routes_) == RouteDictOf(routes_, Len(routes_))

\* baseRouteCommand of config_ios
IosBaseRouteCommand(vrf_) ==
    IF vrf_ # "" THEN "ip route vrf " \o vrf_ ELSE "ip route"

\* the static-route lines, one per route
IosStaticLines(routes_, vrf_) ==
    [i \in 1..Len(routes_) |->
        IosBaseRouteCommand(vrf_) \o " "
            \o NetworkWithNetmask(routes_[i].network) \o " null0"]

\* prefixListName for enumerate index `index` (0-based)
PrefixListName(index) == "ROUTEGEN-PL" \o ToString(index + 1)

\* the ip prefix-list lines of one group
IosPrefixListLines(index, networks) ==
    [prefixIndex \in 1..Len(networks) |->
        "ip prefix-list " \o PrefixListName(index)
            \o " seq " \o ToString(prefixIndex)
            \o " permit " \o NetworkStr(networks[prefixIndex])]

\* IosRouteMapLines with the set lines emitted whatever their operand
IosRouteMapLines_Unconditional(index, value) ==
    << "route-map ROUTEGEN-RM permit " \o ToString(index + 1),
       "  match ip address prefix-list " \o PrefixListName(index),
       "  set as-path prepend " \o value[1],
       "  set community add " \o value[2],
       "  set origin " \o value[3] >>

\* the route-map clause of one group; value is the group's key
IosRouteMapLines(index, value) ==
    << "route-map ROUTEGEN-RM permit " \o ToString(index + 1),
       "  match ip address prefix-list " \o PrefixListName(index),
       IF value[1] # "" THEN "  set as-path prepend " \o value[1] ELSE "",
       IF value[2] # "" THEN "  set community add " \o value[2] ELSE "",
       IF value[3] # "igp" THEN "  set origin " \o value[3] ELSE "" >>

\* IosRedistributeLines with localAS >= 0 taken as supplied
IosRedistributeLines_NonNegative(localAS_) ==
    IF localAS_ >= 0
    THEN << "router bgp " \o ToString(localAS_),
            "redistribute static route-map ROUTEGEN-RM" >>
    ELSE << >>

\* the redistribution pair appended inside the loop over the groups
IosRedistributeLines(localAS_) ==
    IF localAS_ > 0
    THEN << "router bgp " \o ToString(localAS_),
            "redistribute static route-map ROUTEGEN-RM" >>
    ELSE << >>

\* everything one iteration of the loop over routeDict appends
IosGroupLines(d, i, localAS_) ==
    IosPrefixListLines(i - 1, d[i].value)
        \o IosRouteMapLines(i - 1, d[i].key)
        \o IosRedistributeLines(localAS_)

\* the list `config` of config_ios when the loops are done
IosConfig(routes_, localAS_, vrf_) ==
    LET d == RouteDict(routes_)
    IN  IosStaticLines(routes_, vrf_)
            \o Flatten([i \in 1..Len(d) |-> IosGroupLines(d, i, localAS_)])

\* the argument config_ios passes to "\n".join
config_ios(routes_, localAS_, vrf_) ==
    NonEmptyLines(IosConfig(routes_, localAS_, vrf_))

----------------------------------------------------------------------------
(* generate_config.py: config_junos                                        *)

\* baseCommand of config_junos
JunosBaseCommand(vrf_) ==
    IF vrf_ # "" THEN "set routing-instances " \o vrf_ ELSE "set"

\* baseRouteCommand of config_junos
JunosBaseRouteCommand(vrf_) ==
    Join(" ", << JunosBaseCommand(vrf_), "routing-options static route" >>)

\* `command` as appended to config for one route
JunosStaticLine(route, vrf_) ==
    JunosBaseRouteCommand(vrf_) \o " " \o NetworkStr(route.network) \o " discard"
        \o (IF Len(route.communities) > 0
            THEN " community [ " \o Join(" ", route.communities) \o " ]" ELSE "")
        \o (IF Len(route.aspath) > 0
            THEN " as-path path \"" \o Join(" ", aspath_as_str(route)) \o "\"" ELSE "")
        \o (IF route.origin # "igp"
            THEN " as-path origin " \o route.origin ELSE "")

\* basePolicyCommand of config_junos
JunosBasePolicyCommand == "set policy-options policy-statement ROUTEGEN-POLICY term 1"

\* the policy statements appended after the loop over the routes
JunosPolicyLines ==
    << JunosBasePolicyCommand \o " from protocol static",
       JunosBasePolicyCommand \o " then accept" >>

\* the export-policy attachment statement
JunosAttachStatement(vrf_, bgpGroup_) ==
    JunosBaseCommand(vrf_) \o " protocols bgp group " \o bgpGroup_
        \o " export ROUTEGEN-POLICY"

\* the local variable `command` when config_junos returns: the last route's
\* statement (or ""), with the attachment statement added to it when
\* bgpGroup is non-empty
JunosCommand(routes_, vrf_, bgpGroup_) ==
    LET last == IF Len(routes_) = 0 THEN ""
                ELSE JunosStaticLine(routes_[Len(routes_)], vrf_)
    IN  IF bgpGroup_ # "" THEN last \o JunosAttachStatement(vrf_, bgpGroup_)
        ELSE last

\* config_junos with one policy term per group of routeDict
config_junos_Grouped(routes_, vrf_, bgpGroup_) ==
    [i \in 1..Len(routes_) |-> JunosStaticLine(routes_[i], vrf_)]
        \o Flatten([i \in 1..Len(RouteDict(routes_)) |->
            << "set policy-options policy-statement ROUTEGEN-POLICY term "
                    \o ToString(i) \o " from protocol static",
               "set policy-options policy-statement ROUTEGEN-POLICY term "
                    \o ToString(i) \o " then accept" >>])

\* the list `config` config_junos passes to "\n".join
config_junos(routes_, vrf_, bgpGroup_) ==
    [i \in 1..Len(routes_) |-> JunosStaticLine(routes_[i], vrf_)]
        \o JunosPolicyLines

\* writeConfig: the text written to the file
writeConfig(config_) == Join("\n", config_)

----------------------------------------------------------------------------
(* Python values of the validator: the trees yaml.safe_load returns        *)

\* a str: its characters
StrV(chars) == [tag |-> "str", s |-> chars, n |-> 0, pairs |-> <<>>, elems |-> <<>>]
\* an int
IntV(k) == [tag |-> "int", s |-> <<>>, n |-> k, pairs |-> <<>>, elems |-> <<>>]
\* a dict: its items in insertion order, each [key |-> characters, val |-> value]
DictV(items) == [tag |-> "dict", s |-> <<>>, n |-> 0, pairs |-> items, elems |-> <<>>]
\* a list: its elements
ListV(items) == [tag |-> "list", s |-> <<>>, n |-> 0, pairs |-> <<>>, elems |-> items]

\* key in d, for a dict d
HasKey(d, key) == \E i \in 1..Len(d.pairs) : d.pairs[i].key = key
\* d[key], for a dict d that has the key
Get(d, key) == d.pairs[CHOOSE i \in 1..Len(d.pairs) : d.pairs[i].key = key].val

\* the outcomes that are no return value: the exception a call died of
Faults == { "KeyError", "IndexError", "TypeError", "AttributeError" }

Digits == << "0", "1", "2", "3", "4", "5", "6", "7", "8", "9" >>
Letters == << "a", "b", "c", "d", "e", "f", "g", "h", "i", "j", "k", "l", "m",
              "n", "o", "p", "q", "r", "s", "t", "u", "v", "w", "x", "y", "z" >>

RECURSIVE NatStr(_)
\* str(k) for an int k >= 0
NatStr(k) ==
    IF k < 10 THEN << Digits[k + 1] >>
    ELSE NatStr(k \div 10) \o << Digits[(k % 10) + 1] >>

\* str(value) for a str or an int
PyStr(value) ==
    IF value.tag = "str" THEN value.s
    ELSE IF value.n < 0 THEN << "-" >> \o NatStr(0 - value.n)
    ELSE NatStr(value.n)

----------------------------------------------------------------------------
(* re.fullmatch, for patterns made of the atoms \d, [x-y], . and a literal  *)
(* character, each optionally followed by + or *                            *)

\* position of a character in a sequence of characters, 0 when absent
IndexIn(chars, c) ==
    IF \E i \in 1..Len(chars) : chars[i] = c
    THEN CHOOSE i \in 1..Len(chars) : chars[i] = c
    ELSE 0

\* number of pattern characters the atom at position i takes
AtomLen(pattern, i) ==
    IF pattern[i] = "\\" THEN 2
    ELSE IF pattern[i] = "[" THEN 5
    ELSE 1

\* whether the atom at position i of the pattern matches character c
AtomMatches(pattern, i, c) ==
    IF pattern[i] = "\\"
    THEN pattern[i + 1] = "d" /\ IndexIn(Digits, c) > 0
    ELSE IF pattern[i] = "["
    THEN \E alphabet \in { Digits, Letters } :
            /\ IndexIn(alphabet, pattern[i + 1]) > 0
            /\ IndexIn(alphabet, pattern[i + 3]) > 0
            /\ IndexIn(alphabet, c) >= IndexIn(alphabet, pattern[i + 1])
            /\ IndexIn(alphabet, c) <= IndexIn(alphabet, pattern[i + 3])
    ELSE IF pattern[i] = "." THEN TRUE
    ELSE pattern[i] = c

RECURSIVE MatchFrom(_, _, _, _)
\* whether pattern[i..] matches exactly string[j..]
MatchFrom(pattern, i, string, j) ==
    IF i > Len(pattern) THEN j > Len(string)
    ELSE
        LET next == i + AtomLen(pattern, i)
            quantifier == IF next <= Len(pattern) THEN pattern[next] ELSE ""
            here == j <= Len(string) /\ AtomMatches(pattern, i, string[j])
        IN  IF quantifier = "*"
            THEN \/ MatchFrom(pattern, next + 1, string, j)
                 \/ here /\ MatchFrom(pattern, i, string, j + 1)
            ELSE IF quantifier = "+"
            THEN here /\ (\/ MatchFrom(pattern, next + 1, string, j + 1)
                          \/ MatchFrom(pattern, i, string, j + 1))
            ELSE here /\ MatchFrom(pattern, next, string, j + 1)

\* re.fullmatch(pattern, string) is not None
fullmatch(pattern, string) == MatchFrom(pattern, 1, string, 1)

----------------------------------------------------------------------------
(* config_validation.py: basic_validation_caller                           *)
(* A call's outcome is "True" or "False", the value returned, or the name   *)
(* of the exception it died of.                                             *)

kRequired == << "r", "e", "q", "u", "i", "r", "e", "d" >>
kRegex == << "r", "e", "g", "e", "x" >>

\* whether the characters x occur in the characters string, one after another
IsSubstring(x, string) ==
    \E i \in 1..(Len(string) + 1) :
        /\ i + Len(x) - 1 <= Len(string)
        /\ SubSeq(string, i, i + Len(x) - 1) = x

\* `x in container` for a str x with characters key; "TypeError" when the
\* container is an int
KeyIn(key, container) ==
    CASE container.tag = "dict" -> HasKey(container, key)
      [] container.tag = "list" ->
            \E i \in 1..Len(container.elems) : container.elems[i] = StrV(key)
      [] container.tag = "str"  -> IsSubstring(key, container.s)
      [] OTHER -> FALSE

\* the values `for x in value` yields: the elements of a list, the keys of a
\* dict, the characters of a str
Iterate(value) ==
    CASE value.tag = "list" -> value.elems
      [] value.tag = "dict" -> [i \in 1..Len(value.pairs) |-> StrV(value.pairs[i].key)]
      [] OTHER -> [i \in 1..Len(value.s) |-> StrV(<< value.s[i] >>)]

\* whether a value can be hashed: a str or an int
Hashable(value) == value.tag \in { "str", "int" }

\* basic_validation_dict: config is a dict
basic_validation_dict(config_, schema_) ==
    IF Len(config_.pairs) > 0 /\ schema_.tag = "int" THEN "TypeError"
    ELSE IF \E i \in 1..Len(config_.pairs) : ~KeyIn(config_.pairs[i].key, schema_)
    THEN "False"
    ELSE IF schema_.tag # "dict" THEN "TypeError"
    ELSE IF ~HasKey(schema_, kRequired) THEN "KeyError"
    ELSE
        LET required == Get(schema_, kRequired)
        IN  IF required.tag = "int" THEN "TypeError"
            ELSE IF \E i \in 1..Len(Iterate(required)) : ~Hashable(Iterate(required)[i])
            THEN "TypeError"
            ELSE IF \E i \in 1..Len(Iterate(required)) :
                        \/ Iterate(required)[i].tag # "str"
                        \/ ~HasKey(config_, Iterate(required)[i].s)
            THEN "False"
            ELSE "True"

\* tuple(d.items()): the (key, value) pairs of a dict in insertion order
ItemsTuple(d) == d.pairs

\* what evaluating tuple(d.items()) and hashing it for the set dies of, "" if nothing
ItemsTupleFault(d) ==
    IF d.tag # "dict" THEN "AttributeError"
    ELSE IF \E i \in 1..Len(d.pairs) : ~Hashable(d.pairs[i].val) THEN "TypeError"
    ELSE ""

\* basic_validation_list: config is a list
basic_validation_list(config_) ==
    LET elems == config_.elems
        n == Len(elems)
    IN  IF \A i \in 1..n : Hashable(elems[i])
        THEN \* len(set(config)) != len(config)
             IF Cardinality({ elems[i] : i \in 1..n }) # n THEN "False" ELSE "True"
        ELSE \* except TypeError: the set of the elements' item tuples
             IF \E i \in 1..n : ItemsTupleFault(elems[i]) # ""
             THEN ItemsTupleFault(
                    elems[CHOOSE i \in 1..n :
                            /\ ItemsTupleFault(elems[i]) # ""
                            /\ \A j \in 1..(i - 1) : ItemsTupleFault(elems[j]) = ""])
             ELSE IF Cardinality({ ItemsTuple(elems[i]) : i \in 1..n }) # n
             THEN "False" ELSE "True"

\* what container[item] dies of, "" if nothing; the item is a str key when
\* config is a dict and the index 0 when config is a list
SubscriptFault(container, config_, i) ==
    IF config_.tag = "dict"
    THEN IF container.tag # "dict" THEN "TypeError"
         ELSE IF ~HasKey(container, config_.pairs[i].key) THEN "KeyError"
         ELSE ""
    ELSE CASE container.tag = "list" -> IF Len(container.elems) = 0 THEN "IndexError" ELSE ""
           [] container.tag = "dict" -> "KeyError"
           [] container.tag = "str"  -> IF Len(container.s) = 0 THEN "IndexError" ELSE ""
           [] OTHER -> "TypeError"

\* container[item], when SubscriptFault is ""
Subscript(container, config_, i) ==
    IF config_.tag = "dict" THEN Get(container, config_.pairs[i].key)
    ELSE IF container.tag = "list" THEN container.elems[1]
    ELSE StrV(<< container.s[1] >>)

\* the leaf check: fullmatch(dataSchema["regex"], str(dataContent))
LeafCheck(dataContent, dataSchema) ==
    IF dataSchema.tag # "dict" THEN "TypeError"
    ELSE IF ~HasKey(dataSchema, kRegex) THEN "KeyError"
    ELSE IF Get(dataSchema, kRegex).tag # "str" THEN "TypeError"
    ELSE IF fullmatch(Get(dataSchema, kRegex).s, PyStr(dataContent)) THEN "True"
    ELSE "False"

RECURSIVE basic_validation_caller(_, _, _)
RECURSIVE ValidateItems(_, _, _, _)

\* the loop `for item in config`, from the i-th item on
ValidateItems(config_, schema_, types_, i) ==
    IF i > (IF config_.tag = "dict" THEN Len(config_.pairs) ELSE Len(config_.elems))
    THEN "True"
    ELSE IF SubscriptFault(schema_, config_, i) # ""
    THEN SubscriptFault(schema_, config_, i)
    ELSE IF SubscriptFault(types_, config_, i) # ""
    THEN SubscriptFault(types_, config_, i)
    ELSE
        LET dataContent == IF config_.tag = "dict" THEN config_.pairs[i].val
                           ELSE config_.elems[i]
            dataSchema == Subscript(schema_, config_, i)
            dataType == Subscript(types_, config_, i)
            verdict ==
                IF dataContent.tag # dataType.tag THEN "False"
                ELSE IF dataType.tag \in { "dict", "list" }
                THEN basic_validation_caller(dataContent, dataSchema, dataType)
                ELSE LeafCheck(dataContent, dataSchema)
        IN  IF verdict # "True" THEN verdict
            ELSE ValidateItems(config_, schema_, types_, i + 1)

\* basic_validation_caller(config, schema, types)
basic_validation_caller(config_, schema_, types_) ==
    IF config_.tag \notin { "dict", "list" } THEN "KeyError"
    ELSE
        LET shape == IF config_.tag = "dict"
                     THEN basic_validation_dict(config_, schema_)
                     ELSE basic_validation_list(config_)
        IN  IF shape # "True" THEN shape
            ELSE ValidateItems(config_, schema_, types_, 1)

----------------------------------------------------------------------------
(* config_validation.py: validate_base, the section validators,            *)
(* validateConfig; exceptions.py                                           *)

kBasic == << "b", "a", "s", "i", "c" >>

\* the body of every decorated section validator (validate_basic, ...): pass
Refinement(config_, schema_, types_) == "None"

\* what doc[key] dies of, "" if nothing
DocFault(doc, key) ==
    IF doc.tag # "dict" THEN "TypeError"
    ELSE IF ~HasKey(doc, key) THEN "KeyError"
    ELSE ""

\* inner(config, schema, types) of validate_base(key)
validate_base(key, config_, schema_, types_) ==
    IF DocFault(config_, key) # "" THEN DocFault(config_, key)
    ELSE IF DocFault(schema_, key) # "" THEN DocFault(schema_, key)
    ELSE IF DocFault(types_, key) # "" THEN DocFault(types_, key)
    ELSE
        LET verdict == basic_validation_caller(
                            Get(config_, key), Get(schema_, key), Get(types_, key))
        IN  IF verdict \in Faults THEN verdict
            ELSE IF verdict = "False" THEN "False"
            ELSE Refinement(Get(config_, key), Get(config_, key), Get(config_, key))

\* validate_basic, as decorated by validate_base("basic")
validate_basic(config_, schema_, types_) == validate_base(kBasic, config_, schema_, types_)

\* enabledTests of validateConfig: description and section validator
enabledTests ==
    << [test |-> "Test to validate basic configuration", key |-> kBasic] >>

\* Not that takes only None for a failure
Not_OnlyNone(value) == value = "None"

\* `not value` for what a section validator returns
Not(value) == value \in { "False", "None" }

\* ConfigValidationTestFailedError(test).test
ConfigValidationTestFailedError(test) == test

\* ConfigValidationTestFailedError.__str__
ErrorMessage(test) == "Test failed during configuration validation: " \o test

RECURSIVE RunTests(_, _, _, _)
\* the loop of validateConfig from the i-th enabled test on: the tests run,
\* what the last one returned, and the error raised ("none": returned normally)
RunTests(config_, schema_, types_, i) ==
    IF i > Len(enabledTests) THEN [ran |-> <<>>, result |-> "none", raised |-> "none"]
    ELSE
        LET verdict == validate_base(enabledTests[i].key, config_, schema_, types_)
            rest == RunTests(config_, schema_, types_, i + 1)
        IN  IF verdict \in Faults
            THEN [ran |-> << enabledTests[i].test >>, result |-> verdict, raised |-> "none"]
            ELSE IF Not(verdict)
            THEN [ran |-> << enabledTests[i].test >>, result |-> verdict,
                  raised |-> ConfigValidationTestFailedError(enabledTests[i].test)]
            ELSE [ran |-> << enabledTests[i].test >> \o rest.ran,
                  result |-> IF rest.result = "none" THEN verdict ELSE rest.result,
                  raised |-> rest.raised]

\* validateConfig(config, schema, types)
validateConfig(config_, schema_, types_) == RunTests(config_, schema_, types_, 1)

----------------------------------------------------------------------------
(* The inputs the calls are made with                                      *)

LocalASValues == { -1, 0, 65000 }
Vrfs == { "", "CUST" }
BgpGroups == { "", "PEERS" }

kName == << "n", "a", "m", "e" >>
kAsn == << "a", "s", "n" >>
kTags == << "t", "a", "g", "s" >>
kPeers == << "p", "e", "e", "r", "s" >>
kIp == << "i", "p" >>
kTag == << "t", "a", "g" >>
kOpts == << "o", "p", "t", "s" >>

reDigits == << "\\", "d", "+" >>
reLower == << "[", "a", "-", "z", "]", "+" >>

Pair(k, v) == [key |-> k, val |-> v]
Leaf(pattern) == DictV(<< Pair(kRegex, StrV(pattern)) >>)

\* schema and type template of one element of basic.peers
PeerSchema ==
    DictV(<< Pair(kRequired, ListV(<< StrV(kIp) >>)),
             Pair(kIp, Leaf(reDigits)),
             Pair(kTag, Leaf(reLower)),
             Pair(kOpts, DictV(<< Pair(kRequired, ListV(<< >>)) >>)) >>)
PeerTypes ==
    DictV(<< Pair(kIp, IntV(0)), Pair(kTag, StrV(<< "x" >>)), Pair(kOpts, DictV(<< >>)) >>)

\* schema and type template of the section basic
BasicSchema ==
    DictV(<< Pair(kRequired, ListV(<< StrV(kName) >>)),
             Pair(kName, Leaf(reLower)),
             Pair(kAsn, Leaf(reDigits)),
             Pair(kTags, ListV(<< Leaf(reLower) >>)),
             Pair(kPeers, ListV(<< PeerSchema >>)) >>)
BasicTypes ==
    DictV(<< Pair(kName, StrV(<< "x" >>)),
             Pair(kAsn, IntV(0)),
             Pair(kTags, ListV(<< StrV(<< "x" >>) >>)),
             Pair(kPeers, ListV(<< PeerTypes >>)) >>)

\* a schema that declares no `required` list, and a type template that
\* wants the asn as a str
BasicSchemaNoRequired ==
    DictV(<< Pair(kName, Leaf(reLower)), Pair(kAsn, Leaf(reDigits)) >>)
BasicTypesStrAsn ==
    DictV(<< Pair(kName, StrV(<< "x" >>)),
             Pair(kAsn, StrV(<< "0" >>)),
             Pair(kTags, ListV(<< StrV(<< "x" >>) >>)),
             Pair(kPeers, ListV(<< PeerTypes >>)) >>)

\* the (schema, types) pairs of the section
SectionDocs ==
    { << BasicSchema, BasicTypes >>,
      << BasicSchema, BasicTypesStrAsn >>,
      << BasicSchemaNoRequired, BasicTypes >> }

\* all sequences over a set of length at most n
SeqUpTo(S, n) == UNION { [1..k -> S] : k \in 0..n }

\* one optional item of a dict: no pair, or the key with one of the values
Optional(key, values) == { << >> } \cup { << Pair(key, v) >> : v \in values }

TagValues == { StrV(<< "a" >>), IntV(1) }
TagLists(n) == { ListV(l) : l \in SeqUpTo(TagValues, n) }

\* the elements of basic.peers: dicts over ip, tag and opts, in either key order
PeerValues ==
    { DictV(<< >>),
      DictV(<< Pair(kIp, IntV(1)) >>),
      DictV(<< Pair(kIp, IntV(1)), Pair(kTag, StrV(<< "a" >>)) >>),
      DictV(<< Pair(kTag, StrV(<< "a" >>)), Pair(kIp, IntV(1)) >>),
      DictV(<< Pair(kIp, IntV(2)), Pair(kTag, StrV(<< "a" >>)) >>),
      DictV(<< Pair(kIp, IntV(1)), Pair(kOpts, DictV(<< >>)) >>) }
PeerLists(n) == { ListV(l) : l \in SeqUpTo(PeerValues, n) }

NameValues == { StrV(<< "a", "b" >>), StrV(<< "a", "1" >>) }
AsnValues == { IntV(65001), StrV(<< "7" >>) }

\* the values of the section basic, with lists of length at most n
SectionValues(n) ==
    { DictV(name \o asn \o tags \o peers) :
        name \in Optional(kName, NameValues),
        asn \in Optional(kAsn, AsnValues),
        tags \in Optional(kTags, TagLists(n)),
        peers \in Optional(kPeers, PeerLists(n)) }

\* a document with the one top-level section basic
Document(section) == DictV(<< Pair(kBasic, section) >>)

\* the (config, schema, types) triples basic_validation_caller is called with:
\* the section, and the lists of the section on their own
CallerInputs(n) ==
    { << v, d[1], d[2] >> : v \in SectionValues(n), d \in SectionDocs }
        \cup { << l, ListV(<< PeerSchema >>), ListV(<< PeerTypes >>) >> : l \in PeerLists(n) }
        \cup { << l, ListV(<< Leaf(reLower) >>), ListV(<< StrV(<< "x" >>) >>) >> : l \in TagLists(n) }

----------------------------------------------------------------------------
(* The state machine: the functions keep no state between calls, so a       *)
(* behaviour is one call: the initial state holds the arguments, the one    *)
(* step runs the function on them                                           *)

NoValue == DictV(<< >>)

\* nothing written, nothing returned, nothing raised yet
NoOutput ==
    /\ lines = << >>
    /\ written = ""
    /\ command = ""
    /\ result = "none"
    /\ ran = << >>
    /\ raised = "none"

NoRoutes == routes = << >> /\ localAS = -1 /\ vrf = "" /\ bgpGroup = ""
NoDocuments == config = NoValue /\ schema = NoValue /\ types = NoValue

\* the arguments of a call of config_ios(routes, path, localAS, vrf)
Init_config_ios ==
    /\ pc = "enter config_ios"
    /\ routes \in RouteLists(MaxRoutes)
    /\ localAS \in LocalASValues
    /\ vrf \in Vrfs
    /\ bgpGroup = ""
    /\ NoDocuments /\ NoOutput

\* the arguments of a call of config_junos(routes, path, vrf, bgpGroup)
Init_config_junos ==
    /\ pc = "enter config_junos"
    /\ routes \in RouteLists(MaxRoutes)
    /\ localAS = -1
    /\ vrf \in Vrfs
    /\ bgpGroup \in BgpGroups
    /\ NoDocuments /\ NoOutput

\* the arguments of a call of basic_validation_caller(config, schema, types)
Init_basic_validation_caller ==
    /\ pc = "enter basic_validation_caller"
    /\ \E in \in CallerInputs(MaxListLen) :
        config = in[1] /\ schema = in[2] /\ types = in[3]
    /\ NoRoutes /\ NoOutput

\* the arguments of a call of validateConfig(config, schema, types)
Init_validateConfig ==
    /\ pc = "enter validateConfig"
    /\ \E v \in SectionValues(MaxListLen), d \in SectionDocs :
        config = Document(v) /\ schema = Document(d[1]) /\ types = Document(d[2])
    /\ NoRoutes /\ NoOutput

Init ==
    \/ Init_config_ios
    \/ Init_config_junos
    \/ Init_basic_validation_caller
    \/ Init_validateConfig

\* config_ios(routes, path, localAS, vrf)
Call_config_ios ==
    /\ pc = "enter config_ios"
    /\ lines' = config_ios(routes, localAS, vrf)
    /\ written' = writeConfig(config_ios(routes, localAS, vrf))
    /\ pc' = "config_ios"
    /\ UNCHANGED << routes, localAS, vrf, bgpGroup, command,
                    config, schema, types, result, ran, raised >>

\* config_junos(routes, path, vrf, bgpGroup)
Call_config_junos ==
    /\ pc = "enter config_junos"
    /\ command' = JunosCommand(routes, vrf, bgpGroup)
    /\ lines' = config_junos(routes, vrf, bgpGroup)
    /\ written' = writeConfig(config_junos(routes, vrf, bgpGroup))
    /\ pc' = "config_junos"
    /\ UNCHANGED << routes, localAS, vrf, bgpGroup,
                    config, schema, types, result, ran, raised >>

\* basic_validation_caller(config, schema, types)
Call_basic_validation_caller ==
    /\ pc = "enter basic_validation_caller"
    /\ result' = basic_validation_caller(config, schema, types)
    /\ pc' = "basic_validation_caller"
    /\ UNCHANGED << routes, localAS, vrf, bgpGroup, lines, written, command,
                    config, schema, types, ran, raised >>

\* validateConfig(config, schema, types)
Call_validateConfig ==
    /\ pc = "enter validateConfig"
    /\ LET outcome == validateConfig(config, schema, types)
       IN  /\ result' = outcome.result
           /\ ran' = outcome.ran
           /\ raised' = outcome.raised
    /\ pc' = "validateConfig"
    /\ UNCHANGED << routes, localAS, vrf, bgpGroup, lines, written, command,
                    config, schema, types >>

Next ==
    \/ Call_config_ios
    \/ Call_config_junos
    \/ Call_basic_validation_caller
    \/ Call_validateConfig

Spec == Init /\ [][Next]_vars

\* the compilers alone, and the validator alone
InitCompile == Init_config_ios \/ Init_config_junos
NextCompile == Call_config_ios \/ Call_config_junos
SpecCompile == InitCompile /\ [][NextCompile]_vars

InitValidate == Init_basic_validation_caller \/ Init_validateConfig
NextValidate == Call_basic_validation_caller \/ Call_validateConfig
SpecValidate == InitValidate /\ [][NextValidate]_vars

----------------------------------------------------------------------------
(* Reading the emitted text back: what a line says                          *)

\* the numbers a group, a prefix-list entry or a policy term can carry
Indices == 0..(MaxRoutes + 1)

\* (aspath, communities, origin) of a route
Triple(route) == << route.aspath, route.communities, route.origin >>

\* the distinct triples of a route list
DistinctTriples(rs) == { Triple(rs[i]) : i \in 1..Len(rs) }

\* the positions at which a triple occurs for the first time
FirstSeen(rs) ==
    { i \in 1..Len(rs) : \A j \in 1..(i - 1) : Triple(rs[j]) # Triple(rs[i]) }

\* for each route, the 1-based rank of its triple in the order of first
\* occurrence: the number of triples first seen up to the first occurrence
\* of its own
Groups(rs) ==
    LET first == FirstSeen(rs)
    IN  [i \in 1..Len(rs) |->
            Cardinality({ j \in first :
                            \E h \in j..i : h \in first /\ Triple(rs[h]) = Triple(rs[i]) })]

\* the positions of the routes of group k, in input order
RoutesOfGroup(rs, k) ==
    LET groups == Groups(rs)
    IN  SelectSeq([i \in 1..Len(rs) |-> i], LAMBDA i : groups[i] = k)

\* the triple of group k
TripleOfGroup(rs, k) == Triple(rs[RoutesOfGroup(rs, k)[1]])

\* what a line of IOS text says: its kind and, by kind, the number of the
\* group or prefix-list, the seq of the entry, the network, the vrf, the
\* attribute set and its operand
Said(line_, kind_, index_, seq_, network_, vrf_, what_, operand_) ==
    [line |-> line_, kind |-> kind_, index |-> index_, seq |-> seq_,
     network |-> network_, vrf |-> vrf_, what |-> what_, operand |-> operand_]

NoNetwork == [addr |-> "", prefixlen |-> 0]

\* the operands a set line can carry: the joined attributes of the routes, and none
Operands ==
    UNION { { Join(" ", aspath_as_str(r)), Join(" ", r.communities), r.origin } : r \in Route }
        \cup { "" }

\* every `ip prefix-list ROUTEGEN-PL<name> seq <seq> permit <network>` line
EntryTable ==
    { Said("ip prefix-list ROUTEGEN-PL" \o ToString(k) \o " seq " \o ToString(n)
                \o " permit " \o NetworkStr(net),
           "entry", k, n, net, "", "", "") :
        k \in Indices, n \in Indices, net \in Networks }

\* every `route-map ROUTEGEN-RM permit <index>` line
ClauseTable ==
    { Said("route-map ROUTEGEN-RM permit " \o ToString(k),
           "clause", k, 0, NoNetwork, "", "", "") : k \in Indices }

\* every `ip route [vrf <vrf>] <address> <netmask> null0` line
StaticTable ==
    { Said((IF v = "" THEN "ip route " ELSE "ip route vrf " \o v \o " ")
                \o net.addr \o " " \o netmask(net.prefixlen) \o " null0",
           "static", 0, 0, net, v, "", "") :
        v \in Vrfs, net \in Networks }

\* every `  set as-path prepend|community add|origin <operand>` line
SetTable ==
    { Said("  set " \o w \o " " \o x, "set", 0, 0, NoNetwork, "", w, x) :
        w \in { "as-path prepend", "community add", "origin" }, x \in Operands }

\* every `  match ip address prefix-list ROUTEGEN-PL<name>` line
MatchTable ==
    { Said("  match ip address prefix-list ROUTEGEN-PL" \o ToString(k),
           "match", k, 0, NoNetwork, "", "", "") : k \in Indices }

\* every `router bgp <localAS>` line, and the redistribute line
BgpTable ==
    { Said("router bgp " \o ToString(as), "bgp", as, 0, NoNetwork, "", "", "") :
        as \in LocalASValues }
        \cup { Said("redistribute static route-map ROUTEGEN-RM",
                    "redistribute", 0, 0, NoNetwork, "", "", "") }

\* every policy-term statement of Junos text
TermTable ==
    { Said("set policy-options policy-statement ROUTEGEN-POLICY term " \o ToString(k) \o action,
           "term", k, 0, NoNetwork, "", "", "") :
        k \in Indices, action \in { " from protocol static", " then accept" } }

\* every export-policy attachment statement of Junos text
AttachTable ==
    { Said((IF v = "" THEN "set" ELSE "set routing-instances " \o v)
                \o " protocols bgp group " \o g \o " export ROUTEGEN-POLICY",
           "attach", 0, 0, NoNetwork, v, "", g) :
        v \in Vrfs, g \in BgpGroups \ { "" } }

AllSaid ==
    TermTable \cup AttachTable \cup
    EntryTable \cup ClauseTable \cup StaticTable \cup SetTable \cup MatchTable \cup BgpTable

\* the lines above, and each with what it says
KnownLines == { e.line : e \in AllSaid }
LineTable == [l \in KnownLines |-> CHOOSE e \in AllSaid : e.line = l]

\* what a line says; kind "other" for any other text
Parse(line) ==
    IF line \in KnownLines THEN LineTable[line]
    ELSE Said(line, "other", 0, 0, NoNetwork, "", "", "")

\* what each line of a text says
ParseAll(seq) == [q \in 1..Len(seq) |-> Parse(seq[q])]

\* the positions of the lines of a kind
Positions(said, kind_) == { q \in 1..Len(said) : said[q].kind = kind_ }

\* the positions of the lines of the clause that starts at position p: the
\* indented lines that follow it
ClauseBody(said, p) ==
    { q \in (p + 1)..Len(said) :
        \A h \in (p + 1)..q : said[h].kind \in { "set", "match" } }

\* the set lines of a given kind in the clause that starts at position p
SetLines(said, p, w) ==
    { q \in ClauseBody(said, p) : said[q].kind = "set" /\ said[q].what = w }

\* what the text written by the last compiler call says, line by line
said == ParseAll(lines)

----------------------------------------------------------------------------
(* Claims about config_ios                                                  *)

\* C4: config_ios emits as many route-map clauses, and as many distinct
\* prefix-list names, as the route list has distinct (aspath, communities,
\* origin) triples, and every route is a permit entry of exactly one
\* prefix-list, the one of the group of its triple.
C4_GroupingCorrect ==
    pc = "config_ios" =>
        LET text == said
            groups == Groups(routes)
            entries == Positions(text, "entry")
        IN  /\ Cardinality(Positions(text, "clause")) = Cardinality(DistinctTriples(routes))
            /\ Cardinality({ text[q].index : q \in entries })
                    = Cardinality(DistinctTriples(routes))
            /\ Cardinality(entries) = Len(routes)
            /\ \A i \in 1..Len(routes) :
                    Cardinality({ q \in entries :
                                    /\ text[q].network = routes[i].network
                                    /\ text[q].index = groups[i] })
                        = Cardinality({ j \in 1..Len(routes) :
                                            /\ routes[j].network = routes[i].network
                                            /\ Triple(routes[j]) = Triple(routes[i]) })

\* three routes, the first and the last with the same policy, the second
\* with another: two clauses, two prefix-lists
C4_Witness ==
    /\ pc = "config_ios"
    /\ Len(routes) = 3
    /\ Triple(routes[1]) = Triple(routes[3])
    /\ Triple(routes[1]) # Triple(routes[2])
    /\ routes[1].network # routes[3].network
    /\ Cardinality(Positions(said, "clause")) = 2

\* C5: in a clause, a `set as-path prepend` line only if the group's aspath
\* is non-empty, a `set community add` line only if its communities are
\* non-empty, a `set origin` line only if its origin is not igp; no set line
\* with an empty operand and no empty line in the emitted text.
C5_Suppression ==
    pc = "config_ios" =>
        LET text == said
        IN  /\ \A q \in 1..Len(lines) : lines[q] # ""
            /\ \A q \in Positions(text, "set") : text[q].operand # ""
            /\ \A p \in Positions(text, "clause") :
                /\ text[p].index \in 1..Cardinality(DistinctTriples(routes))
                /\ LET triple == TripleOfGroup(routes, text[p].index)
                   IN  /\ SetLines(text, p, "as-path prepend") # {} => triple[1] # << >>
                       /\ SetLines(text, p, "community add") # {} => triple[2] # << >>
                       /\ SetLines(text, p, "origin") # {} => triple[3] # "igp"

\* a default-policy group whose clause has no set line next to a group
\* whose clause has all three
C5_Witness ==
    /\ pc = "config_ios"
    /\ \E p, q \in Positions(said, "clause") :
        /\ \A w \in { "as-path prepend", "community add", "origin" } :
                SetLines(said, p, w) = {} /\ SetLines(said, q, w) # {}
        /\ TripleOfGroup(routes, said[p].index) = << << >>, << >>, "igp" >>

\* C7: with a positive localAS the pair `router bgp <localAS>` /
\* `redistribute static route-map ROUTEGEN-RM` is appended once per policy
\* group; with localAS <= 0 there is no router bgp and no redistribute line.
C7_Redistribution ==
    pc = "config_ios" =>
        LET text == said
            bgp == Positions(text, "bgp")
            redistribute == Positions(text, "redistribute")
        IN  IF localAS > 0
            THEN /\ Cardinality(bgp) = Cardinality(DistinctTriples(routes))
                 /\ \A p \in bgp : lines[p] = "router bgp " \o ToString(localAS)
                 /\ redistribute = { p + 1 : p \in bgp }
                 /\ \A p \in Positions(text, "clause") :
                        \E b \in bgp :
                            /\ b > p
                            /\ ClauseBody(text, p) = (p + 1)..(b - 1)
            ELSE bgp = {} /\ redistribute = {}

\* a positive localAS and two groups: two pairs
C7_Witness ==
    /\ pc = "config_ios"
    /\ localAS = 65000
    /\ Cardinality(DistinctTriples(routes)) = 2
    /\ Cardinality(Positions(said, "redistribute")) = 2

\* C10: the static-route lines come first, one per route in input order;
\* group indices follow the first occurrence of each grouping key; the
\* entries of ROUTEGEN-PLk are seq 1..n with the group's networks in input
\* order; clause `permit k` matches prefix-list ROUTEGEN-PLk.
C10_Order ==
    pc = "config_ios" =>
        LET text == said
        IN  /\ Positions(text, "static") = 1..Len(routes)
            /\ \A i \in 1..Len(routes) :
                    /\ text[i].network = routes[i].network
                    /\ text[i].vrf = vrf
            /\ { text[q].index : q \in Positions(text, "entry") }
                    = 1..Cardinality(DistinctTriples(routes))
            /\ \A k \in 1..Cardinality(DistinctTriples(routes)) :
                LET entries == SelectSeq(text, LAMBDA e : e.kind = "entry" /\ e.index = k)
                    group == RoutesOfGroup(routes, k)
                IN  /\ Len(entries) = Len(group)
                    /\ \A n \in 1..Len(entries) :
                            /\ entries[n].seq = n
                            /\ entries[n].network = routes[group[n]].network
            /\ \A p \in Positions(text, "clause") :
                    /\ p < Len(text)
                    /\ text[p + 1].kind = "match"
                    /\ text[p + 1].index = text[p].index

\* policies A, B, A over three routes: group 1 lists the first and the
\* third route as seq 1 and seq 2, group 2 the second
C10_Witness ==
    /\ pc = "config_ios"
    /\ Len(routes) = 3
    /\ Groups(routes) = << 1, 2, 1 >>
    /\ routes[1].network # routes[3].network
    /\ \E q \in Positions(said, "entry") :
            /\ said[q].index = 1
            /\ said[q].seq = 2
            /\ said[q].network = routes[3].network

----------------------------------------------------------------------------
(* Claims about config_junos                                                *)

\* the numbers of the policy terms of a text
JunosTerms(text) == { text[q].index : q \in Positions(text, "term") }

\* the number of route-map clauses config_ios emits for a route list
IosClauses(rs) == Cardinality(Positions(ParseAll(config_ios(rs, -1, "")), "clause"))

\* C6: with a non-empty bgpGroup the output of config_junos has exactly one
\* export-policy attachment statement, for that group and routing-instance,
\* after all static-route and policy statements; with an empty bgpGroup it
\* has none.
C6_Attachment ==
    pc = "config_junos" =>
        IF bgpGroup # ""
        THEN /\ Positions(said, "attach") = { Len(lines) }
             /\ said[Len(lines)].vrf = vrf
             /\ said[Len(lines)].operand = bgpGroup
        ELSE Positions(said, "attach") = {}

\* C8 as claimed: config_junos emits one policy term per distinct triple,
\* numbered from 1, as many as config_ios emits route-map clauses.
C8_SameGrouping ==
    pc = "config_junos" =>
        /\ JunosTerms(said) = 1..Cardinality(DistinctTriples(routes))
        /\ Cardinality(JunosTerms(said)) = IosClauses(routes)

\* C8 as amended: config_junos does not group; it emits the one policy
\* term 1 whatever the route list, so the number of its terms is the number
\* of config_ios's route-map clauses only for a list with exactly one
\* distinct triple.
C8_SingleTerm ==
    pc = "config_junos" =>
        /\ JunosTerms(said) = { 1 }
        /\ IosClauses(routes) = Cardinality(DistinctTriples(routes))
        /\ (Cardinality(JunosTerms(said)) = IosClauses(routes))
                <=> (Cardinality(DistinctTriples(routes)) = 1)

\* three routes with three policies, and still the single term 1
C8_Witness ==
    /\ pc = "config_junos"
    /\ Cardinality(DistinctTriples(routes)) = 3
    /\ IosClauses(routes) = 3
    /\ JunosTerms(said) = { 1 }

----------------------------------------------------------------------------
(* Claims about the validator                                               *)

\* mapping, sequence or scalar
Shape(value) == IF value.tag \in { "str", "int" } THEN "scalar" ELSE value.tag

RECURSIVE PyEq(_, _)
\* a == b: dicts are equal when they hold the same key/value pairs, in any order
PyEq(a, b) ==
    /\ a.tag = b.tag
    /\ CASE a.tag = "dict" ->
                /\ { a.pairs[i].key : i \in 1..Len(a.pairs) }
                        = { b.pairs[i].key : i \in 1..Len(b.pairs) }
                /\ \A i \in 1..Len(a.pairs) :
                        PyEq(a.pairs[i].val, Get(b, a.pairs[i].key))
         [] a.tag = "list" ->
                /\ Len(a.elems) = Len(b.elems)
                /\ \A i \in 1..Len(a.elems) : PyEq(a.elems[i], b.elems[i])
         [] OTHER -> a = b

\* whether a list holds two equal elements
HasDuplicates(value) ==
    \E i, j \in 1..Len(value.elems) : i < j /\ PyEq(value.elems[i], value.elems[j])

\* the keys a schema node requires: its `required` list, none without one
RequiredKeys(schema_) ==
    IF HasKey(schema_, kRequired)
    THEN { Get(schema_, kRequired).elems[i].s : i \in 1..Len(Get(schema_, kRequired).elems) }
    ELSE {}

RECURSIVE Conforms(_, _, _)
\* the conditions of C3 on a value tree, its schema and its type template
Conforms(value, schema_, types_) ==
    LET Child(c, s, t) ==
            /\ Shape(c) = Shape(t)
            /\ IF Shape(t) = "scalar"
               THEN fullmatch(Get(s, kRegex).s, PyStr(c))
               ELSE Conforms(c, s, t)
    IN  IF value.tag = "dict"
        THEN /\ \A i \in 1..Len(value.pairs) :
                    /\ value.pairs[i].key # kRequired
                    /\ HasKey(schema_, value.pairs[i].key)
                    /\ HasKey(types_, value.pairs[i].key)
             /\ \A key \in RequiredKeys(schema_) : HasKey(value, key)
             /\ \A i \in 1..Len(value.pairs) :
                    Child(value.pairs[i].val, Get(schema_, value.pairs[i].key),
                          Get(types_, value.pairs[i].key))
        ELSE /\ ~HasDuplicates(value)
             /\ \A i \in 1..Len(value.elems) :
                    Child(value.elems[i], schema_.elems[1], types_.elems[1])

\* the subtrees of the section basic of the three documents
Section(doc) == Get(doc, kBasic)

\* C1: validateConfig returns normally for every triple in which the
\* subtree of each enabled section passes the generic validator.
C1_ReturnsNormally ==
    (/\ pc = "validateConfig"
     /\ basic_validation_caller(Section(config), Section(schema), Section(types)) = "True")
        => raised = "none"

\* C2: validateConfig runs the enabled tests in order and, at the first
\* section validator that returns false, raises the error carrying that
\* test's description; no later test is run.  A config that misses a
\* required key under basic raises "Test to validate basic configuration".
C2_FailFast ==
    pc = "validateConfig" =>
        /\ \A i \in 1..Len(ran) : ran[i] = enabledTests[i].test
        /\ (\E key \in RequiredKeys(Section(schema)) : ~HasKey(Section(config), key))
                => /\ result = "False"
                   /\ raised = "Test to validate basic configuration"
        /\ result = "False"
                => /\ ran # << >>
                   /\ raised = ran[Len(ran)]
                   /\ \A i \in 1..(Len(ran) - 1) :
                        validate_base(enabledTests[i].key, config, schema, types)
                            \notin { "False" } \cup Faults

\* the required key name is missing under basic, and the error names the test
C2_Witness ==
    /\ pc = "validateConfig"
    /\ schema = Document(BasicSchema)
    /\ ~HasKey(Section(config), kName)
    /\ HasKey(Section(config), kAsn)
    /\ ran = << "Test to validate basic configuration" >>
    /\ raised = "Test to validate basic configuration"

\* C3: basic_validation_caller returns true if and only if, at every node,
\* the keys are declared and the required keys present, no sequence holds
\* duplicates, the shapes match the type template and every leaf's string
\* form fully matches its regex (stated here of the calls that return).
C3_Iff ==
    (pc = "basic_validation_caller" /\ result \notin Faults) =>
        ((result = "True") <=> Conforms(config, schema, types))

\* C9: basic_validation_caller returns false, and does not fault, for a
\* sequence with two equal elements, whatever the order of the keys of
\* equal mappings and whatever their values.
C9_DuplicatesRejected ==
    (/\ pc = "basic_validation_caller"
     /\ config.tag = "list"
     /\ HasDuplicates(config))
        => result = "False"

====
